---- MODULE Spec2Model ----
(***************************************************************************)
(* Export mixins of django-import-export (import_export/mixins.py).        *)
(*                                                                         *)
(* A view class is configured with `formats`, `resource_class`, `model`    *)
(* and, optionally, a filterset capability.  Two handlers turn a request   *)
(* into a download: ExportViewFormMixin.form_valid (a submitted form, the  *)
(* format chosen by ordinal index) and ExportModelDRFMixin.export (an API  *)
(* action, the format chosen by title in the `format` query parameter).    *)
(* The resource layer, the format classes, HttpResponse and the            *)
(* post_export signal are collaborators: each of their calls is recorded   *)
(* in `calls` and may raise.                                               *)
(***************************************************************************)
EXTENDS Integers, Sequences, FiniteSets, TLC

(***************************************************************************)
(* Bounds of the model.                                                    *)
(***************************************************************************)
\* longest configured `formats` sequence
MaxFormats == 2
\* days the clock may advance during a behaviour
MaxTicks == 3

(***************************************************************************)
(* Python values.                                                          *)
(***************************************************************************)
None == [py_none |-> TRUE]

\* record types (Django models) a view or a resource may declare
Book == [__name__ |-> "Book"]
Author == [__name__ |-> "Author"]
RecordTypes == {Book, Author}

\* an explicitly written resource class, with its Meta.model
BookResource == [name |-> "BookResource", Meta |-> [model |-> Book]]
ResourceClasses == {BookResource}

\* modelresource_factory(model): a resource class derived from the record type
modelresource_factory(m) ==
    [name |-> m.__name__ \o "Resource", Meta |-> [model |-> m]]

(***************************************************************************)
(* Format classes.  What f().can_import(), f().can_export(),               *)
(* f().get_title(), f().get_extension() and f().get_content_type() answer. *)
(***************************************************************************)
CSV == [name |-> "CSV", title |-> "csv", extension |-> "csv",
        content_type |-> "text/csv",
        can_import |-> TRUE, can_export |-> TRUE]
XLSX == [name |-> "XLSX", title |-> "xlsx", extension |-> "xlsx",
         content_type |-> "application/vnd.openxmlformats-officedocument.spreadsheetml.sheet",
         can_import |-> TRUE, can_export |-> TRUE]
\* a format whose writer is not installed: imported and not exported
XLS == [name |-> "XLS", title |-> "xls", extension |-> "xls",
        content_type |-> "application/vnd.ms-excel",
        can_import |-> TRUE, can_export |-> FALSE]
\* a second class that reports the title of CSV; exported and not imported
SemicolonCSV == [name |-> "SemicolonCSV", title |-> "csv", extension |-> "txt",
                 content_type |-> "text/plain",
                 can_import |-> FALSE, can_export |-> TRUE]
FormatClasses == {CSV, XLSX, XLS, SemicolonCSV}

\* every sequence of at most n format classes
FormatSeqs(n) == UNION {[1..k -> FormatClasses] : k \in 0..n}

(***************************************************************************)
(* Sequence helpers.                                                       *)
(***************************************************************************)
\* list.index(x): the first position of x, 0-based; -1 stands for ValueError
RECURSIVE ListIndexFrom(_, _, _)
ListIndexFrom(s, x, i) ==
    IF i > Len(s) THEN -1
    ELSE IF s[i] = x THEN i - 1
    ELSE ListIndexFrom(s, x, i + 1)
ListIndex(s, x) == ListIndexFrom(s, x, 1)

\* dict.get(key, default)
DictGet(d, key, default) == IF key \in DOMAIN d THEN d[key] ELSE default

(***************************************************************************)
(* int(str) on strings without blanks or underscores: an optional sign,    *)
(* then decimal digits; anything else is a ValueError (ok = FALSE).        *)
(***************************************************************************)
Digits == "0123456789"
DigitChar(d) == SubSeq(Digits, d + 1, d + 1)
IsDigit(c) == \E d \in 0..9 : DigitChar(d) = c
DigitVal(c) == CHOOSE d \in 0..9 : DigitChar(d) = c

RECURSIVE AllDigits(_)
AllDigits(s) ==
    IF Len(s) = 0 THEN TRUE
    ELSE IsDigit(SubSeq(s, 1, 1)) /\ AllDigits(SubSeq(s, 2, Len(s)))

RECURSIVE DigitsVal(_, _)
DigitsVal(s, acc) ==
    IF Len(s) = 0 THEN acc
    ELSE DigitsVal(SubSeq(s, 2, Len(s)), 10 * acc + DigitVal(SubSeq(s, 1, 1)))

PyInt(s) ==
    LET signed == Len(s) > 0 /\ SubSeq(s, 1, 1) \in {"-", "+"}
        body == IF signed THEN SubSeq(s, 2, Len(s)) ELSE s
    IN  IF Len(body) = 0 \/ ~AllDigits(body)
        THEN [ok |-> FALSE, value |-> 0]
        ELSE [ok |-> TRUE,
              value |-> IF signed /\ SubSeq(s, 1, 1) = "-"
                        THEN 0 - DigitsVal(body, 0) ELSE DigitsVal(body, 0)]

(***************************************************************************)
(* The clock.  `clock` counts the days since the behaviour began; now()    *)
(* is the date of that day.                                                *)
(***************************************************************************)
StartDate == [year |-> 2024, month |-> 12, day |-> 30]

IsLeap(y) == (y % 4 = 0 /\ y % 100 # 0) \/ y % 400 = 0
DaysInMonth(y, m) ==
    IF m = 2 THEN (IF IsLeap(y) THEN 29 ELSE 28)
    ELSE IF m \in {4, 6, 9, 11} THEN 30 ELSE 31
NextDay(d) ==
    IF d.day < DaysInMonth(d.year, d.month)
    THEN [d EXCEPT !.day = d.day + 1]
    ELSE IF d.month < 12
    THEN [year |-> d.year, month |-> d.month + 1, day |-> 1]
    ELSE [year |-> d.year + 1, month |-> 1, day |-> 1]

RECURSIVE DateOf(_)
DateOf(n) == IF n = 0 THEN StartDate ELSE NextDay(DateOf(n - 1))

\* a number in decimal, zero-padded to at least w digits
RECURSIVE ZeroPad(_, _)
ZeroPad(n, w) ==
    IF w <= 1 /\ n < 10 THEN DigitChar(n)
    ELSE ZeroPad(n \div 10, w - 1) \o DigitChar(n % 10)

\* datetime.strftime('%Y-%m-%d')
strftime_Ymd(d) ==
    ZeroPad(d.year, 4) \o "-" \o ZeroPad(d.month, 2) \o "-" \o ZeroPad(d.day, 2)

(***************************************************************************)
(* Collaborators, as the values they hand back.                            *)
(***************************************************************************)
\* self.get_queryset()
get_queryset == [source |-> "get_queryset", filtered_by |-> "nothing"]
\* self.get_filterset(self.get_filterset_class()).qs
filterset_qs == [source |-> "get_filterset", filtered_by |-> "filterset"]
\* self.filter_queryset(qs) of the API framework
filter_queryset(qs) == [qs EXCEPT !.filtered_by = "filter_queryset"]

\* resource_class(**kwargs).export(queryset): the tabular data
resource_export(rc, kwargs, qs) ==
    [resource |-> rc, kwargs |-> kwargs, queryset |-> qs]
\* file_format.export_data(data): the encoded payload
format_export_data(f, data) == [encoded_as |-> f.name, data |-> data]

\* HttpResponse(content, content_type=...)
HttpResponse(content, ctype) ==
    [status |-> 200, content |-> content,
     headers |-> [h \in {"Content-Type"} |-> ctype]]
\* JsonResponse without its status argument: the default, 200
JsonResponse_default_status(data, status) ==
    [status |-> 200, content |-> data,
     headers |-> [h \in {"Content-Type"} |-> "application/json"]]
\* JsonResponse(data=..., status=...)
JsonResponse(data, status) ==
    [status |-> status, content |-> data,
     headers |-> [h \in {"Content-Type"} |-> "application/json"]]
\* response[header] = value
SetHeader(resp, header, value) ==
    [resp EXCEPT !.headers =
        [h \in DOMAIN resp.headers \cup {header} |->
            IF h = header THEN value ELSE resp.headers[h]]]

Exception(type, origin) == [type |-> type, raised_by |-> origin]

(***************************************************************************)
(* The mixins' methods.  `self` is the view: its class attributes.         *)
(***************************************************************************)
\* BaseImportExportMixin.get_resource_class; self.model must not be None
\* when no resource_class is set
get_resource_class(self) ==
    IF self.resource_class = None
    THEN modelresource_factory(self.model)
    ELSE self.resource_class

\* BaseImportExportMixin.get_resource_kwargs: {}
get_resource_kwargs == [k \in {} |-> None]

\* BaseImportMixin.get_import_formats
get_import_formats(self) == SelectSeq(self.formats, LAMBDA f : f.can_import)

\* get_export_formats without its condition: every configured format
get_export_formats_unfiltered(self) == self.formats
\* BaseExportMixin.get_export_formats
get_export_formats(self) == SelectSeq(self.formats, LAMBDA f : f.can_export)

\* BaseExportMixin.get_data_for_export
get_data_for_export(self, qs) ==
    resource_export(get_resource_class(self), get_resource_kwargs, qs)

\* get_export_filename with the date read once, when the module is loaded
get_export_filename_import_time_date(self, file_format, today) ==
    self.resource_class.Meta.model.__name__ \o "-" \o strftime_Ymd(StartDate)
        \o "." \o file_format.extension
\* BaseExportMixin.get_export_filename; self.resource_class must not be None
get_export_filename(self, file_format, today) ==
    self.resource_class.Meta.model.__name__ \o "-" \o strftime_Ymd(today)
        \o "." \o file_format.extension

\* ExportViewMixin.get_export_data
get_export_data(self, file_format, qs) ==
    format_export_data(file_format, get_data_for_export(self, qs))

\* get_allowed_export_formats without its condition: every format's title
get_allowed_export_formats_unfiltered(self) ==
    [i \in 1..Len(self.formats) |-> self.formats[i].title]
\* ExportModelDRFMixin.get_allowed_export_formats
get_allowed_export_formats(self) ==
    LET kept == SelectSeq(self.formats, LAMBDA f : f.can_export)
    IN  [i \in 1..Len(kept) |-> kept[i].title]

\* the Content-Disposition header both handlers set
content_disposition(filename) == "attachment; filename=\"" \o filename \o "\""

\* an index check that refuses negative indexes
PyIndexOk_nonnegative(s, i) == 0 <= i /\ i < Len(s)
\* list[i] of Python: i counts from 0, a negative i counts from the end
PyIndexOk(s, i) == 0 - Len(s) <= i /\ i < Len(s)
PyItem(s, i) == s[IF i >= 0 THEN i + 1 ELSE Len(s) + i + 1]

(***************************************************************************)
(* State.                                                                  *)
(***************************************************************************)
VARIABLES
    \* the view class's configuration
    formats,            \* the configured `formats` sequence
    resource_class,     \* the `resource_class` attribute, or None
    model,              \* the `model` attribute, or None
    has_filterset,      \* hasattr(self, 'get_filterset')
    view_class,         \* "ExportViewFormMixin" or "ExportModelDRFMixin"
    \* the environment
    clock,              \* days elapsed; now() is DateOf(clock)
    \* one request being handled
    pc,                 \* the handler's position
    request,            \* form.cleaned_data, or request.GET
    form_kwargs,        \* what get_form_kwargs() gave the form
    import_formats,     \* [returned |-> get_import_formats()] once called
    export_formats,     \* the handler's local `formats`
    file_format,        \* the handler's local `file_format`
    queryset,           \* the handler's local `queryset`
    export_data,        \* the handler's local `export_data`
    content_type,       \* the handler's local `content_type`
    response,           \* the handler's local `response`
    returned,           \* what the handler returned
    exception,          \* what the handler raised
    sent,               \* post_export signals sent
    calls               \* collaborator calls made, in order

config == <<formats, resource_class, model, has_filterset, view_class>>
locals == <<export_formats, file_format, queryset, export_data, content_type,
            response>>
vars == <<config, clock, pc, request, form_kwargs, import_formats, locals,
          returned, exception, sent, calls>>

\* the view instance
Self == [formats |-> formats, resource_class |-> resource_class,
         model |-> model, has_filterset |-> has_filterset]

\* submitted values of the form's file_format field
FileFormatValues == {"0", "1", "2", "-1", "-3", "x"}
\* values of the `format` query parameter
FormatParams == {"csv", "xlsx", "xls", "unknownformat"}
\* request.GET: without or with a `format` parameter
QueryDicts == {[k \in {} |-> ""]} \cup {[format |-> t] : t \in FormatParams}

Init ==
    /\ formats \in FormatSeqs(MaxFormats)
    /\ resource_class \in {None} \cup ResourceClasses
    /\ model \in {None} \cup RecordTypes
    /\ has_filterset \in BOOLEAN
    /\ view_class \in {"ExportViewFormMixin", "ExportModelDRFMixin"}
    /\ clock = 0
    /\ pc = "idle"
    /\ request = None
    /\ form_kwargs = None
    /\ import_formats = None
    /\ export_formats = None
    /\ file_format = None
    /\ queryset = None
    /\ export_data = None
    /\ content_type = None
    /\ response = None
    /\ returned = None
    /\ exception = None
    /\ sent = <<>>
    /\ calls = <<>>

\* the handler raises exc after making the calls made
Raise(exc, made) ==
    /\ pc' = "raised"
    /\ exception' = exc
    /\ calls' = calls \o made
    /\ UNCHANGED <<config, clock, request, form_kwargs, import_formats, locals,
                   returned, sent>>

(***************************************************************************)
(* The environment.                                                        *)
(***************************************************************************)
\* a day passes
Tick ==
    /\ clock < MaxTicks
    /\ clock' = clock + 1
    /\ UNCHANGED <<config, pc, request, form_kwargs, import_formats, locals,
                   returned, exception, sent, calls>>

\* a caller asks the view for its import formats
GetImportFormats ==
    /\ pc = "idle"
    /\ import_formats = None
    /\ import_formats' = [returned |-> get_import_formats(Self)]
    /\ UNCHANGED <<config, clock, pc, request, form_kwargs, locals, returned,
                   exception, sent, calls>>

\* the request is over: the next one gets a fresh view instance
NextRequest ==
    /\ pc \in {"done", "raised"}
    /\ pc' = "idle"
    /\ request' = None
    /\ form_kwargs' = None
    /\ import_formats' = None
    /\ export_formats' = None
    /\ file_format' = None
    /\ queryset' = None
    /\ export_data' = None
    /\ content_type' = None
    /\ response' = None
    /\ returned' = None
    /\ exception' = None
    /\ sent' = <<>>
    /\ calls' = <<>>
    /\ UNCHANGED <<config, clock>>

(***************************************************************************)
(* Steps both handlers take, in the same words.                            *)
(***************************************************************************)
\* export_data = self.get_export_data(file_format, queryset): resolve the
\* resource class, construct the resource, export, encode; then to `next`
ExportDataStep(next) ==
    IF resource_class = None /\ model = None
    THEN Raise(Exception("AttributeError", "modelresource_factory"), <<>>)
    ELSE
      \/ Raise(Exception("Error", "resource_class()"), <<"resource_class()">>)
      \/ Raise(Exception("Error", "resource.export"),
               <<"resource_class()", "resource.export">>)
      \/ Raise(Exception("Error", "file_format.export_data"),
               <<"resource_class()", "resource.export",
                 "file_format.export_data">>)
      \/ /\ export_data' = get_export_data(Self, file_format, queryset)
         /\ calls' = calls \o <<"resource_class()", "resource.export",
                                "file_format.export_data">>
         /\ pc' = next
         /\ UNCHANGED <<config, clock, request, form_kwargs, import_formats,
                        export_formats, file_format, queryset, content_type,
                        response, returned, exception, sent>>

\* response = HttpResponse(export_data, content_type=ctype), and on a
\* TypeError HttpResponse(export_data, mimetype=ctype); then to `next`
ResponseStep(ctype, next) ==
    \/ Raise(Exception("Error", "HttpResponse(content_type=)"),
             <<"HttpResponse(content_type=)">>)
    \/ Raise(Exception("Error", "HttpResponse(mimetype=)"),
             <<"HttpResponse(content_type=)", "HttpResponse(mimetype=)">>)
    \/ /\ \/ calls' = calls \o <<"HttpResponse(content_type=)">>
          \/ calls' = calls \o <<"HttpResponse(content_type=)",
                                 "HttpResponse(mimetype=)">>
       /\ response' = HttpResponse(export_data, ctype)
       /\ content_type' = ctype
       /\ pc' = next
       /\ UNCHANGED <<config, clock, request, form_kwargs, import_formats,
                      export_formats, file_format, queryset, export_data,
                      returned, exception, sent>>

(***************************************************************************)
(* ExportViewMixin.get_form_kwargs and ExportViewFormMixin.form_valid.     *)
(***************************************************************************)
\* the form is built with the export formats as its choices
get_form_kwargs ==
    /\ pc = "idle"
    /\ view_class = "ExportViewFormMixin"
    /\ form_kwargs' = [formats |-> get_export_formats(Self)]
    /\ pc' = "form_displayed"
    /\ UNCHANGED <<config, clock, request, import_formats, locals, returned,
                   exception, sent, calls>>

\* a valid form comes in: form_valid(form) is called
FormSubmit ==
    /\ pc = "form_displayed"
    /\ \E v \in FileFormatValues :
          request' = [cleaned_data |-> [file_format |-> v]]
    /\ pc' = "form_valid"
    /\ UNCHANGED <<config, clock, form_kwargs, import_formats, locals,
                   returned, exception, sent, calls>>

\* formats = self.get_export_formats()
\* file_format = formats[int(form.cleaned_data['file_format'])]()
form_valid_format ==
    /\ pc = "form_valid"
    /\ LET fs == get_export_formats(Self)
           n == PyInt(request.cleaned_data.file_format)
       IN  IF ~n.ok
           THEN Raise(Exception("ValueError", "int"), <<>>)
           ELSE IF ~PyIndexOk(fs, n.value)
           THEN Raise(Exception("IndexError", "formats[]"), <<>>)
           ELSE /\ export_formats' = fs
                /\ file_format' = PyItem(fs, n.value)
                /\ calls' = calls \o <<"format()">>
                /\ pc' = "fv_queryset"
                /\ UNCHANGED <<config, clock, request, form_kwargs,
                               import_formats, queryset, export_data,
                               content_type, response, returned, exception,
                               sent>>

\* form_valid taking the raw queryset whatever the view can do
form_valid_queryset_unfiltered ==
    /\ pc = "fv_queryset"
    /\ queryset' = get_queryset
    /\ calls' = calls \o <<"get_queryset">>
    /\ pc' = "fv_export_data"
    /\ UNCHANGED <<config, clock, request, form_kwargs, import_formats,
                   export_formats, file_format, export_data, content_type,
                   response, returned, exception, sent>>

\* if hasattr(self, 'get_filterset'): queryset = ....qs
\* else: queryset = self.get_queryset()
form_valid_queryset ==
    /\ pc = "fv_queryset"
    /\ IF has_filterset
       THEN /\ queryset' = filterset_qs
            /\ calls' = calls \o <<"get_filterset">>
       ELSE /\ queryset' = get_queryset
            /\ calls' = calls \o <<"get_queryset">>
    /\ pc' = "fv_export_data"
    /\ UNCHANGED <<config, clock, request, form_kwargs, import_formats,
                   export_formats, file_format, export_data, content_type,
                   response, returned, exception, sent>>

form_valid_export_data ==
    /\ pc = "fv_export_data"
    /\ ExportDataStep("fv_response")

\* content_type = file_format.get_content_type(), then the response
form_valid_response ==
    /\ pc = "fv_response"
    /\ ResponseStep(file_format.content_type, "fv_disposition")

\* form_valid going on without the header when the filename cannot be derived
form_valid_disposition_swallow ==
    /\ pc = "fv_disposition"
    /\ IF resource_class = None
       THEN /\ pc' = "fv_post_export"
            /\ UNCHANGED <<config, clock, request, form_kwargs, import_formats,
                           locals, returned, exception, sent, calls>>
       ELSE \/ Raise(Exception("Error", "file_format.get_extension"),
                     <<"file_format.get_extension">>)
            \/ /\ response' =
                    SetHeader(response, "Content-Disposition",
                        content_disposition(
                            get_export_filename(Self, file_format, DateOf(clock))))
               /\ calls' = calls \o <<"file_format.get_extension">>
               /\ pc' = "fv_post_export"
               /\ UNCHANGED <<config, clock, request, form_kwargs,
                              import_formats, export_formats, file_format,
                              queryset, export_data, content_type, returned,
                              exception, sent>>

\* response['Content-Disposition'] = ... self.get_export_filename(file_format)
form_valid_disposition ==
    /\ pc = "fv_disposition"
    /\ IF resource_class = None
       THEN Raise(Exception("AttributeError", "get_export_filename"), <<>>)
       ELSE \/ Raise(Exception("Error", "file_format.get_extension"),
                     <<"file_format.get_extension">>)
            \/ /\ response' =
                    SetHeader(response, "Content-Disposition",
                        content_disposition(
                            get_export_filename(Self, file_format, DateOf(clock))))
               /\ calls' = calls \o <<"file_format.get_extension">>
               /\ pc' = "fv_post_export"
               /\ UNCHANGED <<config, clock, request, form_kwargs,
                              import_formats, export_formats, file_format,
                              queryset, export_data, content_type, returned,
                              exception, sent>>

\* form_valid returning the response without sending post_export
form_valid_post_export_silent ==
    /\ pc = "fv_post_export"
    /\ returned' = response
    /\ pc' = "done"
    /\ UNCHANGED <<config, clock, request, form_kwargs, import_formats, locals,
                   exception, sent, calls>>

\* post_export.send(sender=None, model=self.model); return response
\* (send() lets a receiver's exception through)
form_valid_post_export ==
    /\ pc = "fv_post_export"
    /\ sent' = Append(sent, [sender |-> None, model |-> model])
    /\ calls' = calls \o <<"post_export.send">>
    /\ \/ /\ returned' = response
          /\ pc' = "done"
          /\ UNCHANGED exception
       \/ /\ exception' = Exception("Error", "post_export receiver")
          /\ pc' = "raised"
          /\ UNCHANGED returned
    /\ UNCHANGED <<config, clock, request, form_kwargs, import_formats, locals>>

(***************************************************************************)
(* ExportModelDRFMixin.export.                                             *)
(***************************************************************************)
\* GET .../export/?format=<title>
ApiRequest ==
    /\ pc = "idle"
    /\ view_class = "ExportModelDRFMixin"
    /\ \E q \in QueryDicts : request' = [GET |-> q]
    /\ pc' = "export"
    /\ UNCHANGED <<config, clock, form_kwargs, import_formats, locals,
                   returned, exception, sent, calls>>

\* formats = self.get_export_formats()
\* index = self.get_allowed_export_formats().index(request.GET.get('format', 'csv'))
\* on ValueError: return JsonResponse(..., status=400)
\* file_format = formats[index](); content_type = file_format.get_content_type()
export_format ==
    /\ pc = "export"
    /\ LET fs == get_export_formats(Self)
           index == ListIndex(get_allowed_export_formats(Self),
                              DictGet(request.GET, "format", "csv"))
       IN  IF index = -1
           THEN /\ returned' = JsonResponse(
                                  [message |-> "format is not supported"], 400)
                /\ calls' = calls \o <<"JsonResponse">>
                /\ pc' = "done"
                /\ UNCHANGED <<config, clock, request, form_kwargs,
                               import_formats, locals, exception, sent>>
           ELSE IF ~PyIndexOk(fs, index)
           THEN Raise(Exception("IndexError", "formats[]"), <<>>)
           ELSE /\ export_formats' = fs
                /\ file_format' = PyItem(fs, index)
                /\ content_type' = PyItem(fs, index).content_type
                /\ calls' = calls \o <<"format()">>
                /\ pc' = "ex_queryset"
                /\ UNCHANGED <<config, clock, request, form_kwargs,
                               import_formats, queryset, export_data,
                               response, returned, exception, sent>>

\* queryset = self.filter_queryset(self.get_queryset())
export_queryset ==
    /\ pc = "ex_queryset"
    /\ queryset' = filter_queryset(get_queryset)
    /\ calls' = calls \o <<"get_queryset", "filter_queryset">>
    /\ pc' = "ex_export_data"
    /\ UNCHANGED <<config, clock, request, form_kwargs, import_formats,
                   export_formats, file_format, export_data, content_type,
                   response, returned, exception, sent>>

export_export_data ==
    /\ pc = "ex_export_data"
    /\ ExportDataStep("ex_response")

export_response ==
    /\ pc = "ex_response"
    /\ ResponseStep(content_type, "ex_disposition")

\* export sending post_export before it returns, as form_valid does
export_disposition_with_signal ==
    /\ pc = "ex_disposition"
    /\ IF resource_class = None
       THEN Raise(Exception("AttributeError", "get_export_filename"), <<>>)
       ELSE /\ response' =
                    SetHeader(response, "Content-Disposition",
                        content_disposition(
                            get_export_filename(Self, file_format, DateOf(clock))))
            /\ returned' = response'
            /\ sent' = Append(sent, [sender |-> None, model |-> model])
            /\ calls' = calls \o <<"file_format.get_extension", "post_export.send">>
            /\ pc' = "done"
            /\ UNCHANGED <<config, clock, request, form_kwargs,
                           import_formats, export_formats, file_format,
                           queryset, export_data, content_type, exception>>

\* response['Content-Disposition'] = ...; return response
export_disposition ==
    /\ pc = "ex_disposition"
    /\ IF resource_class = None
       THEN Raise(Exception("AttributeError", "get_export_filename"), <<>>)
       ELSE \/ Raise(Exception("Error", "file_format.get_extension"),
                     <<"file_format.get_extension">>)
            \/ /\ response' =
                    SetHeader(response, "Content-Disposition",
                        content_disposition(
                            get_export_filename(Self, file_format, DateOf(clock))))
               /\ returned' = response'
               /\ calls' = calls \o <<"file_format.get_extension">>
               /\ pc' = "done"
               /\ UNCHANGED <<config, clock, request, form_kwargs,
                              import_formats, export_formats, file_format,
                              queryset, export_data, content_type, exception,
                              sent>>

(***************************************************************************)
(* The specification.                                                      *)
(***************************************************************************)
Next ==
    \/ Tick
    \/ GetImportFormats
    \/ NextRequest
    \/ get_form_kwargs
    \/ FormSubmit
    \/ form_valid_format
    \/ form_valid_queryset
    \/ form_valid_export_data
    \/ form_valid_response
    \/ form_valid_disposition
    \/ form_valid_post_export
    \/ ApiRequest
    \/ export_format
    \/ export_queryset
    \/ export_export_data
    \/ export_response
    \/ export_disposition

Spec == Init /\ [][Next]_vars

(***************************************************************************)
(* Properties.  Helper predicates over sequences and strings.              *)
(***************************************************************************)
IsPrefix(s, t) == Len(s) <= Len(t) /\ SubSeq(t, 1, Len(s)) = s
StartsWith(str, pre) == Len(pre) <= Len(str) /\ SubSeq(str, 1, Len(pre)) = pre
EndsWith(str, suf) ==
    Len(suf) <= Len(str) /\ SubSeq(str, Len(str) - Len(suf) + 1, Len(str)) = suf
Contains(s, x) == \E i \in 1..Len(s) : s[i] = x

\* r holds exactly the entries of s at the positions in `keep`, in s's order
IsSublistAt(r, s, keep) ==
    /\ Len(r) = Cardinality(keep)
    /\ \A j \in keep :
          r[Cardinality({k \in keep : k <= j})] = s[j]

ExportablePositions == {j \in 1..Len(formats) : formats[j].can_export}
ImportablePositions == {j \in 1..Len(formats) : formats[j].can_import}

IsFormView == view_class = "ExportViewFormMixin"
IsApiView == view_class = "ExportModelDRFMixin"

\* the title the API request asks for
RequestedTitle ==
    IF "format" \in DOMAIN request.GET THEN request.GET.format ELSE "csv"
\* some configured format is export-capable and has that title
TitleSupported ==
    \E j \in ExportablePositions : formats[j].title = RequestedTitle
\* the API handler has taken its first step
ApiStarted == IsApiView /\ pc \notin {"idle", "export"}
\* form_valid has taken its first step
FormStarted == IsFormView /\ pc \notin {"idle", "form_displayed", "form_valid"}

\* the file name inside a Content-Disposition header
DispositionPrefix == "attachment; filename=\""
FilenameOf(header) == SubSeq(header, Len(DispositionPrefix) + 1, Len(header) - 1)
HasDisposition(resp) == "Content-Disposition" \in DOMAIN resp.headers

\* C1: get_export_formats() is exactly the export-capable entries of
\* `formats` in their original order, get_import_formats() exactly the
\* import-capable ones in their original order, and no step changes `formats`.
C1_State ==
    /\ form_kwargs # None =>
          IsSublistAt(form_kwargs.formats, formats, ExportablePositions)
    /\ file_format # None =>
          IsSublistAt(export_formats, formats, ExportablePositions)
    /\ import_formats # None =>
          IsSublistAt(import_formats.returned, formats, ImportablePositions)
C1_FormatFiltering == [](C1_State) /\ [][formats' = formats]_vars

\* both filters have run on a list where each drops a different entry
C1_Witness ==
    /\ formats = <<XLS, SemicolonCSV>>
    /\ form_kwargs # None
    /\ form_kwargs.formats = <<SemicolonCSV>>
    /\ import_formats # None
    /\ import_formats.returned = <<XLS>>

\* C2: the API action answers a title that no export-capable configured
\* format has with status 400 and {"message": "format is not supported"},
\* at once: no queryset, no resource, no export, no file response.
C2_UnsupportedFormatRejected ==
    (ApiStarted /\ ~TitleSupported) =>
        /\ pc = "done"
        /\ returned # None
        /\ returned.status = 400
        /\ returned.content = [message |-> "format is not supported"]
        /\ calls = <<"JsonResponse">>
        /\ file_format = None
        /\ queryset = None
        /\ export_data = None
        /\ response = None
        /\ exception = None

C2_Witness ==
    /\ IsApiView
    /\ pc = "done"
    /\ formats = <<CSV, XLSX>>
    /\ request.GET = [format |-> "unknownformat"]
    /\ returned.status = 400

\* C3: the titles of get_allowed_export_formats() and the formats of
\* get_export_formats() agree index by index; for a supported title the API
\* action resolves an export-capable format with that title, and its
\* response is 200 with that format's content type, that format's encoding
\* of the filtered queryset and a file name ending in that format's extension.
C3_State ==
    /\ Len(get_allowed_export_formats(Self)) = Cardinality(ExportablePositions)
    /\ \A j \in ExportablePositions :
          get_allowed_export_formats(Self)[Cardinality(
              {k \in ExportablePositions : k <= j})] = formats[j].title
    /\ (ApiStarted /\ TitleSupported) =>
          /\ returned # None => returned.status = 200
          /\ file_format # None =>
                /\ file_format.can_export
                /\ file_format.title = RequestedTitle
                /\ Contains(formats, file_format)
          /\ pc = "done" =>
                /\ file_format # None
                /\ returned # None
                /\ returned.headers["Content-Type"] = file_format.content_type
                /\ returned.content.encoded_as = file_format.name
                /\ returned.content.data.queryset =
                      [source |-> "get_queryset",
                       filtered_by |-> "filter_queryset"]
                /\ HasDisposition(returned)
                /\ EndsWith(returned.headers["Content-Disposition"],
                            "." \o file_format.extension \o "\"")
C3_TitleResolvesFormat == C3_State

\* a title is resolved past a format that cannot be exported
C3_Witness ==
    /\ IsApiView
    /\ pc = "done"
    /\ formats = <<XLS, XLSX>>
    /\ request.GET = [format |-> "xlsx"]
    /\ returned.status = 200
    /\ returned.content.encoded_as = "XLSX"

\* the collaborator calls of a form_valid run that gets to its end
FormCalls(fallback) ==
    <<"format()", IF has_filterset THEN "get_filterset" ELSE "get_queryset",
      "resource_class()", "resource.export", "file_format.export_data",
      "HttpResponse(content_type=)">>
    \o (IF fallback THEN <<"HttpResponse(mimetype=)">> ELSE <<>>)
    \o <<"file_format.get_extension", "post_export.send">>

\* the submitted file_format is the decimal numeral of the ordinal i
SubmittedIs(i) == DigitChar(i) = request.cleaned_data.file_format

\* C4: a form_valid run for file_format = i, 0 <= i < number of export
\* formats, that returns, returns the encoding of the resolved queryset by
\* the i-th export format, with that format's content type and extension, and
\* has sent exactly one post_export for the view's model; the steps come in
\* the order format, queryset, data, response, notification.
C4_State ==
    IsFormView =>
        /\ IsPrefix(calls, FormCalls(FALSE)) \/ IsPrefix(calls, FormCalls(TRUE))
        /\ pc = "done" =>
              \A i \in 0..(Len(form_kwargs.formats) - 1) :
                  SubmittedIs(i) =>
                      LET f == form_kwargs.formats[i + 1]
                      IN  /\ returned # None
                          /\ returned.status = 200
                          /\ queryset # None
                          /\ returned.content.encoded_as = f.name
                          /\ returned.content.data.queryset = queryset
                          /\ returned.headers["Content-Type"] = f.content_type
                          /\ HasDisposition(returned)
                          /\ EndsWith(returned.headers["Content-Disposition"],
                                      "." \o f.extension \o "\"")
                          /\ sent = <<[sender |-> None, model |-> model]>>
                          /\ calls \in {FormCalls(FALSE), FormCalls(TRUE)}
C4_FormExportInOrder == C4_State

\* file_format "0" against [csv, xlsx]: the csv payload, one notification
C4_Witness ==
    /\ IsFormView
    /\ pc = "done"
    /\ formats = <<CSV, XLSX>>
    /\ request.cleaned_data.file_format = "0"
    /\ returned.content.encoded_as = "CSV"
    /\ EndsWith(returned.headers["Content-Disposition"], ".csv\"")
    /\ Len(sent) = 1

\* C5: the API action sends no post_export on any request, accepted or
\* rejected; form_valid has sent it whenever it returns.
C5_State ==
    /\ IsApiView => sent = <<>> /\ ~Contains(calls, "post_export.send")
    /\ (IsFormView /\ pc = "done") =>
          Len(sent) >= 1 /\ Contains(calls, "post_export.send")
C5_ApiSendsNoSignal == C5_State

\* an accepted API export has returned its file and sent nothing
C5_Witness ==
    /\ IsApiView
    /\ pc = "done"
    /\ returned.status = 200
    /\ HasDisposition(returned)
    /\ sent = <<>>

\* C6: the file name get_export_filename(f) gives is
\* "<T>-<YYYY-MM-DD>.<extension of f>", T the name of the record type the
\* resource class declares, the date the clock's at the time of the call.
C6_Step ==
    (pc \in {"fv_disposition", "ex_disposition"}
        /\ pc' \in {"fv_post_export", "done"}) =>
        LET h == response'.headers["Content-Disposition"]
            fn == FilenameOf(h)
            T == resource_class.Meta.model.__name__
            ext == file_format.extension
            d == SubSeq(fn, Len(T) + 2, Len(T) + 11)
            today == DateOf(clock)
        IN  /\ StartsWith(h, DispositionPrefix)
            /\ EndsWith(h, "\"")
            /\ Len(fn) = Len(T) + 1 + 10 + 1 + Len(ext)
            /\ StartsWith(fn, T \o "-")
            /\ EndsWith(fn, "." \o ext)
            /\ AllDigits(SubSeq(d, 1, 4))
            /\ DigitsVal(SubSeq(d, 1, 4), 0) = today.year
            /\ SubSeq(d, 5, 5) = "-"
            /\ AllDigits(SubSeq(d, 6, 7))
            /\ DigitsVal(SubSeq(d, 6, 7), 0) = today.month
            /\ SubSeq(d, 8, 8) = "-"
            /\ AllDigits(SubSeq(d, 9, 10))
            /\ DigitsVal(SubSeq(d, 9, 10), 0) = today.day
C6_FilenameFormat == [][C6_Step]_vars

\* two days after the start, the name carries that day's date
C6_Witness ==
    /\ pc = "fv_post_export"
    /\ clock = 2
    /\ HasDisposition(response)
    /\ response.headers["Content-Disposition"] =
          "attachment; filename=\"Book-2025-01-01.csv\""

\* the request asks for a format the view can export
ValidExportRequest ==
    \/ /\ FormStarted
       /\ \E i \in 0..(Len(form_kwargs.formats) - 1) : SubmittedIs(i)
    \/ /\ ApiStarted
       /\ TitleSupported

\* where a collaborator, and not the mixin, fails
CollaboratorFailures ==
    {"resource_class()", "resource.export", "file_format.export_data",
     "HttpResponse(content_type=)", "HttpResponse(mimetype=)",
     "file_format.get_extension", "post_export receiver"}

\* C7: on a view with a model and no resource_class, a valid export request
\* whose collaborators do not fail gets to its response, and the file name
\* names the view's model.
C7_DerivedResourceExportCompletes ==
    (resource_class = None /\ model # None /\ ValidExportRequest) =>
        /\ pc = "raised" => exception.raised_by \in CollaboratorFailures
        /\ pc = "done" =>
              /\ returned.status = 200
              /\ HasDisposition(returned)
              /\ StartsWith(FilenameOf(returned.headers["Content-Disposition"]),
                            model.__name__ \o "-")

\* the submitted file_format as int() reads it
SubmittedInt == PyInt(request.cleaned_data.file_format)
\* the number of formats the form was given to choose from
OfferedFormats == Len(form_kwargs.formats)
\* form_valid stopped before it resolved, exported, returned or sent anything
FaultedAtIndex ==
    /\ pc = "raised"
    /\ exception.type = "IndexError"
    /\ file_format = None
    /\ queryset = None
    /\ export_data = None
    /\ response = None
    /\ returned = None
    /\ sent = <<>>
    /\ calls = <<>>

\* C8 as stated: an integer file_format outside 0..len-1, above the range or
\* negative, makes form_valid raise before it resolves a format, exports,
\* returns or notifies.
C8_AnyOutOfRangeIndexFaults ==
    (FormStarted /\ SubmittedInt.ok
        /\ (SubmittedInt.value < 0 \/ SubmittedInt.value >= OfferedFormats)) =>
        FaultedAtIndex

\* C8, amended: an integer file_format i with i >= len or i < -len makes
\* form_valid raise IndexError before it resolves a format, exports, returns
\* or notifies; a negative i with -len <= i <= -1 is accepted and resolves
\* the export format at position len + i.
C8_State ==
    (FormStarted /\ SubmittedInt.ok) =>
        /\ (SubmittedInt.value >= OfferedFormats
               \/ SubmittedInt.value < 0 - OfferedFormats) => FaultedAtIndex
        /\ (0 - OfferedFormats <= SubmittedInt.value /\ SubmittedInt.value < 0) =>
              /\ file_format =
                    form_kwargs.formats[OfferedFormats + SubmittedInt.value + 1]
              /\ ~(pc = "raised" /\ exception.type = "IndexError")
C8_IndexBeyondListFaults == C8_State

\* an index below -len has faulted
C8_Witness ==
    /\ IsFormView
    /\ formats = <<CSV, XLSX>>
    /\ request # None
    /\ request.cleaned_data.file_format = "-3"
    /\ FaultedAtIndex

\* C9: form_valid exports the filterset's queryset when the view has
\* get_filterset and the raw get_queryset() result only when it has not; with
\* the capability, get_queryset() is not what is exported.
C9_State ==
    (IsFormView /\ queryset # None) =>
        /\ has_filterset =>
              /\ queryset.source = "get_filterset"
              /\ queryset.filtered_by = "filterset"
              /\ ~Contains(calls, "get_queryset")
        /\ ~has_filterset =>
              /\ queryset.source = "get_queryset"
              /\ queryset.filtered_by = "nothing"
              /\ ~Contains(calls, "get_filterset")
        /\ export_data # None => export_data.data.queryset = queryset
        /\ returned # None => returned.content.data.queryset = queryset
C9_FilteredQuerysetPreferred == C9_State

\* a view with the capability has returned the filtered queryset's export
C9_Witness ==
    /\ IsFormView
    /\ has_filterset
    /\ pc = "done"
    /\ returned.content.data.queryset.source = "get_filterset"

\* failures of resource construction, export, encoding, response
\* construction and file name derivation
ExportFailures ==
    {"modelresource_factory", "resource_class()", "resource.export",
     "file_format.export_data", "HttpResponse(content_type=)",
     "HttpResponse(mimetype=)", "get_export_filename",
     "file_format.get_extension"}

\* C10: when resource construction, export, encoding, response construction
\* or file name derivation fails in form_valid, the error leaves form_valid,
\* nothing is returned and no post_export is sent; post_export is sent only
\* once the response, its Content-Disposition included, is built.
C10_State ==
    IsFormView =>
        /\ pc = "raised" => returned = None /\ exception # None
        /\ (pc = "raised" /\ exception.raised_by \in ExportFailures) =>
              sent = <<>> /\ ~Contains(calls, "post_export.send")
        /\ sent # <<>> =>
              /\ response # None
              /\ response.status = 200
              /\ response.content = export_data
              /\ HasDisposition(response)
C10_NoSignalOnFailure == C10_State

\* the fallback constructor failed too: an error, no response, no signal
C10_Witness ==
    /\ IsFormView
    /\ pc = "raised"
    /\ exception.raised_by = "HttpResponse(mimetype=)"
    /\ returned = None
    /\ sent = <<>>

====
